---- MODULE Spec2Model ----
(***************************************************************************)
(* Model of the job-application intake handler (pages/api/apply.ts,        *)
(* kept here as src/unnamed/part_000).  One handler invocation per         *)
(* request; the hosting runtime runs several invocations concurrently and  *)
(* interleaves them at every await (the upload, the two findFirst          *)
(* look-ups and the create).  The applicant table has no uniqueness        *)
(* constraint (README.md, Prisma schema), the resume directory is a plain  *)
(* directory of files named `${Date.now()}-${sanitizedName}`.              *)
(*                                                                         *)
(* Strings are sequences of one-character strings, so that trim,           *)
(* toLowerCase, the regular expressions and the file-name sanitisation     *)
(* are computed as the code computes them.  An optional value (a form      *)
(* field that may be undefined, a nullable column) is a sequence of        *)
(* length 0 or 1.                                                          *)
(***************************************************************************)
EXTENDS Integers, Sequences, FiniteSets, TLC

\* ------------------------------------------------------------------ bounds
\* number of handler invocations (all may be in flight together)
MaxReqs == 2
\* number of distinct values Date.now() returns
MaxNow == 2
\* number of handler steps that meet an injected fault: a datastore call that
\* throws, a deletion that fails although the file exists
MaxFaults == 1

ReqIds == 1..MaxReqs

\* ----------------------------------------------------------- string helpers
None == <<>>
Some(v) == <<v>>
IsSome(o) == Len(o) = 1
Val(o) == o[1]

WhiteSpace == {" ", "\t", "\n"}
Digits == {"0", "1", "2", "3", "4", "5", "6", "7", "8", "9"}
UpperCase == <<"A", "B", "C", "D", "E", "F", "G", "H", "I", "J", "K", "L", "M",
               "N", "O", "P", "Q", "R", "S", "T", "U", "V", "W", "X", "Y", "Z">>
LowerCase == <<"a", "b", "c", "d", "e", "f", "g", "h", "i", "j", "k", "l", "m",
               "n", "o", "p", "q", "r", "s", "t", "u", "v", "w", "x", "y", "z">>
Letters == {UpperCase[i] : i \in 1..26} \cup {LowerCase[i] : i \in 1..26}

SetMin(S) == CHOOSE x \in S : \A y \in S : x <= y
SetMax(S) == CHOOSE x \in S : \A y \in S : x >= y

\* String.prototype.trim
Trim(s) ==
  LET keep == {i \in 1..Len(s) : s[i] \notin WhiteSpace}
  IN  IF keep = {} THEN <<>> ELSE SubSeq(s, SetMin(keep), SetMax(keep))

LowerChar(c) ==
  IF \E i \in 1..26 : UpperCase[i] = c
  THEN LowerCase[CHOOSE i \in 1..26 : UpperCase[i] = c]
  ELSE c

\* String.prototype.toLowerCase
ToLowerCase(s) == [i \in 1..Len(s) |-> LowerChar(s[i])]

\* String.prototype.includes
Includes(s, sub) ==
  \E i \in 0..(Len(s) - Len(sub)) : SubSeq(s, i + 1, i + Len(sub)) = sub

\* ------------------------------------------------------- upload (multer)
\* limits.fileSize
FileSizeLimit == 5 * 1024 * 1024
\* limits.files
FilesLimit == 1

Pdf == "application/pdf"
Docx == "application/vnd.openxmlformats-officedocument.wordprocessingml.document"
allowedMimeTypes == {Pdf, Docx}

\* a file filter that accepts every content type
fileFilterAcceptsAll(file) == TRUE

\* fileFilter: TRUE accepts the file
fileFilter(file) == file.mimetype \in allowedMimeTypes

\* file.originalname.replace(/[^a-zA-Z0-9.-]/g, '_')
sanitizedName(s) ==
  [i \in 1..Len(s) |->
     IF s[i] \in Letters \cup Digits \cup {".", "-"} THEN s[i] ELSE "_"]

\* `${Date.now()}-${sanitizedName}`
filename(t, file) == [ts |-> t, name |-> sanitizedName(file.originalname)]

\* ------------------------------------------------------------ validation
\* /^[^\s@]+@[^\s@]+\.[^\s@]+$/
validateEmail(email) ==
  \E i, j \in 1..Len(email) :
     /\ 1 < i /\ i + 1 < j /\ j < Len(email)
     /\ email[i] = "@"
     /\ email[j] = "."
     /\ \A k \in (1..Len(email)) \ {i} : email[k] \notin WhiteSpace \cup {"@"}

\* /^[0-9]{10}$/
validatePhone(phone) ==
  /\ Len(phone) = 10
  /\ \A i \in 1..10 : phone[i] \in Digits

LinkedInMarker == <<"l", "i", "n", "k", "e", "d", "i", "n", ".", "c", "o", "m",
                    "/", "i", "n", "/">>

validateLinkedIn(linkedin) ==
  IF linkedin = <<>> THEN TRUE
  ELSE Includes(ToLowerCase(linkedin), LinkedInMarker)

\* !x?.trim() for an optional form field
Blank(o) == ~IsSome(o) \/ Trim(Val(o)) = <<>>

\* -------------------------------------------------------------- responses
Failure(status, msg) == [status |-> status, kind |-> "error", text |-> msg, id |-> 0]
Success(newId) ==
  [status |-> 200, kind |-> "message",
   text |-> "Application submitted successfully!", id |-> newId]

ErrMethod == "Method Not Allowed"
ErrTooLarge == "File size too large. Maximum 5MB allowed."
ErrFileType == "Only PDF and DOCX files are allowed"
ErrUpload == "File upload failed"
ErrFullName == "Full name is required"
ErrEmailRequired == "Email is required"
ErrEmailFormat == "Invalid email format"
ErrPhoneRequired == "Phone number is required"
ErrPhoneFormat == "Phone number must be exactly 10 digits"
ErrLinkedIn == "Invalid LinkedIn URL format"
ErrResume == "Resume file is required"
ErrDupEmail == "An application with this email already exists"
ErrDupPhone == "An application with this phone number already exists"
ErrInternal == "Internal server error"

\* ------------------------------------------------------------ submissions
\* Field values a client may send.  NameOk needs trimming, EmailAUpper differs
\* from EmailA only in letter case, Phone1/Phone2 differ in the last digit,
\* "c v" and "c_v" are two original file names with the same sanitised name.
NameOk == <<" ", "n">>
NameBlank == <<" ">>
EmailA == <<"a", "@", "b", ".", "c">>
EmailAUpper == <<"A", "@", "b", ".", "c">>
EmailD == <<"d", "@", "b", ".", "c">>
EmailBad == <<"a", "@", "b">>
Phone1 == <<"1", "2", "3", "4", "5", "6", "7", "8", "9", "0">>
Phone2 == <<"1", "2", "3", "4", "5", "6", "7", "8", "9", "1">>
PhoneShort == <<"1", "2", "3", "4", "5", "6", "7", "8", "9">>
PhoneDashed == <<"1", "2", "3", "-", "4", "5", "6", "-", "7", "8">>
LinkedInOk == <<"L", "i", "n", "k", "e", "d", "I", "n", ".", "c", "o", "m",
                "/", "i", "n", "/", "x", " ">>
LinkedInBad == <<"x", ".", "c", "o", "m">>
FileNameSpace == <<"c", " ", "v">>
FileNameUnder == <<"c", "_", "v">>

FilePart(name, mime, size) == [originalname |-> name, mimetype |-> mime, size |-> size]
ResumePdf == FilePart(FileNameSpace, Pdf, FileSizeLimit)
ResumeDocx == FilePart(FileNameUnder, Docx, 1024)
ResumeText == FilePart(FileNameSpace, "text/plain", 1024)
ResumeLarge == FilePart(FileNameSpace, Pdf, FileSizeLimit + 1)
ResumeLargeText == FilePart(FileNameSpace, "text/plain", FileSizeLimit + 1)

\* a multipart POST: the four text fields (optional values) and the file parts
Post(fullName, email, phone, linkedin, parts) ==
  [method |-> "POST", fullName |-> fullName, email |-> email, phone |-> phone,
   linkedin |-> linkedin, parts |-> parts]

Valid(email, phone, linkedin, resume) ==
  Post(Some(NameOk), Some(email), Some(phone), linkedin, <<resume>>)
BaseSubmission == Valid(EmailA, Phone1, None, ResumePdf)
GetRequest == [BaseSubmission EXCEPT !.method = "GET"]

\* The requests the model sends: valid submissions that share an e-mail up to
\* letter case or share a phone, the base submission with one field changed
\* to each value the handler treats differently, and submissions with several
\* bad fields.
Submissions ==
  {BaseSubmission,
   Valid(EmailAUpper, Phone1, None, ResumePdf),
   Valid(EmailAUpper, Phone2, Some(LinkedInOk), ResumePdf),
   Valid(EmailD, Phone1, Some(<<>>), ResumeDocx)}
  \cup {[BaseSubmission EXCEPT !.fullName = x] : x \in {Some(NameBlank)}}
  \cup {[BaseSubmission EXCEPT !.email = x] : x \in {None, Some(EmailBad)}}
  \cup {[BaseSubmission EXCEPT !.phone = x] :
          x \in {None, Some(PhoneShort), Some(PhoneDashed)}}
  \cup {[BaseSubmission EXCEPT !.linkedin = x] : x \in {Some(LinkedInBad)}}
  \cup {[BaseSubmission EXCEPT !.parts = x] :
          x \in {<<>>, <<ResumeText>>, <<ResumeLarge>>, <<ResumeLargeText>>,
                 <<ResumePdf, ResumeDocx>>}}
  \cup {Post(None, Some(EmailBad), Some(PhoneShort), Some(LinkedInBad), <<>>),
        Post(Some(NameOk), Some(EmailBad), None, None, <<ResumePdf>>),
        GetRequest}

\* ------------------------------------------------------------------ state
VARIABLES
  applicants,   \* the applicant table: sequence of rows, id = position
  files,        \* the resume directory: file name -> request whose bytes it holds, 0 = no file
  now,          \* last value returned by Date.now(), 0 before the first call
  faults,       \* number of steps that met an injected fault so far
  pc,           \* per request: where its handler invocation stands
  req,          \* per request: the submission received (req.method, req.body, file parts)
  reqFile,      \* per request: req.file as set by multer (optional)
  sent,         \* per request: the responses the handler tried to send, in order
  hist          \* per request: history of its side effects

vars == <<applicants, files, now, faults, pc, req, reqFile, sent, hist>>

SanitizedNames == {sanitizedName(p.originalname) : p \in {ResumePdf, ResumeDocx}}
FileNames == [ts : 1..MaxNow, name : SanitizedNames]

\* History of one request: the table size and the requests in flight when its
\* upload finished, whether its upload was stored, which duplicate look-up
\* found a row, its deletion attempts and whether one failed, whether a
\* datastore call threw, the id of the row it created (0 = none), and how
\* often multer wrote a file for it and how often it inserted a row.
NoHist == [startLen |-> 0, inFlight |-> {}, stored |-> 0, found |-> "",
           unlinks |-> 0, unlinkFailed |-> FALSE, dbFault |-> FALSE, created |-> 0,
           writes |-> 0, creates |-> 0]

InFlight == {q \in ReqIds : pc[q] \notin {"idle", "done"}}
Arrived(h) == [h EXCEPT !.startLen = Len(applicants), !.inFlight = InFlight]

Init ==
  /\ applicants = <<>>
  /\ files = [f \in FileNames |-> 0]
  /\ now = 0
  /\ faults = 0
  /\ pc = [r \in ReqIds |-> "idle"]
  /\ req = [r \in ReqIds |-> GetRequest]
  /\ reqFile = [r \in ReqIds |-> None]
  /\ sent = [r \in ReqIds |-> <<>>]
  /\ hist = [r \in ReqIds |-> NoHist]

\* ------------------------------------------------------ file store (fs)
\* req.file.path of a stored upload
FilePath(r) == Val(reqFile[r]).filename

\* fs.unlinkSync(path) either removes the file or throws: ENOENT when no file
\* of that name exists, any other fault (EPERM, EBUSY, EIO) leaves the file.
UnlinkResults == {"ok", "ENOENT", "EPERM"}
UnlinkOutcomes(fs, path) == IF fs[path] = 0 THEN {"ENOENT"} ELSE {"ok", "EPERM"}

\* whether a step meets an injected fault; it may only while the budget lasts
Injected(dbOk, o1, o2) ==
  IF dbOk /\ o1 # "EPERM" /\ o2 # "EPERM" THEN 0 ELSE 1
Inject(dbOk, o1, o2) ==
  /\ faults + Injected(dbOk, o1, o2) <= MaxFaults
  /\ faults' = faults + Injected(dbOk, o1, o2)

\* a deletion that reports success and removes nothing
unlinkSyncKeepsFile(fs, path) == fs

\* the directory after a successful fs.unlinkSync(path)
unlinkSync(fs, path) == [fs EXCEPT ![path] = 0]

\* the directory after multer's disk storage wrote the upload of request r
\* (fs.createWriteStream replaces a file of the same name)
writeFile(fs, path, r) == [fs EXCEPT ![path] = r]

\* ------------------------------------------------- applicant table (prisma)
\* prisma.applicant.findFirst({ where: { email } }): exact string match
existingApplicantByEmail(table, email) ==
  {i \in 1..Len(table) : table[i].email = email}

\* prisma.applicant.findFirst({ where: { phone } })
existingApplicantByPhone(table, phone) ==
  {i \in 1..Len(table) : table[i].phone = phone}

\* linkedin?.trim() || null
TrimOrNull(o) ==
  IF IsSome(o) /\ Trim(Val(o)) # <<>> THEN Some(Trim(Val(o))) ELSE None

\* `resumes/${uploadedFile.filename}`
resumePath(fn) == [dir |-> "resumes", filename |-> fn]

\* a row whose e-mail is stored as submitted
newApplicantRawEmail(table, body, fn) ==
  [id |-> Len(table) + 1,
   full_name |-> Trim(Val(body.fullName)),
   email |-> Val(body.email),
   phone |-> Trim(Val(body.phone)),
   linkedin |-> TrimOrNull(body.linkedin),
   resume_path |-> resumePath(fn)]

\* the row prisma.applicant.create inserts; id is the autoincrement key
newApplicant(table, body, fn) ==
  [id |-> Len(table) + 1,
   full_name |-> Trim(Val(body.fullName)),
   email |-> ToLowerCase(Trim(Val(body.email))),
   phone |-> Trim(Val(body.phone)),
   linkedin |-> TrimOrNull(body.linkedin),
   resume_path |-> resumePath(fn)]

\* ------------------------------------------------------------ the handler
\* The field checks in the order the handler makes them; "" when all pass.
\* uploadedFile is req.file (optional).
FieldError(body, uploadedFile) ==
  IF Blank(body.fullName) THEN ErrFullName
  ELSE IF Blank(body.email) THEN ErrEmailRequired
  ELSE IF ~validateEmail(Val(body.email)) THEN ErrEmailFormat
  ELSE IF Blank(body.phone) THEN ErrPhoneRequired
  ELSE IF ~validatePhone(Val(body.phone)) THEN ErrPhoneFormat
  ELSE IF IsSome(body.linkedin) /\ Val(body.linkedin) # <<>>
          /\ ~validateLinkedIn(Val(body.linkedin)) THEN ErrLinkedIn
  ELSE IF ~IsSome(uploadedFile) THEN ErrResume
  ELSE ""

\* what multer reports to the upload callback: "" (no error) or the error
\* kind.  busboy hands the first file part to fileFilter, streams an accepted
\* part to disk, and raises the size limit while streaming and the file-count
\* limit when a further file part arrives.
UploadError(parts) ==
  IF Len(parts) = 0 THEN ""
  ELSE IF ~fileFilter(parts[1]) THEN "FILE_TYPE"
  ELSE IF parts[1].size > FileSizeLimit THEN "LIMIT_FILE_SIZE"
  ELSE IF Len(parts) > FilesLimit THEN "LIMIT_FILE_COUNT"
  ELSE ""

\* the response the upload callback sends for an upload error
UploadFailure(err) ==
  IF err = "LIMIT_FILE_SIZE" THEN Failure(400, ErrTooLarge)
  ELSE IF err = "FILE_TYPE" THEN Failure(400, ErrFileType)
  ELSE Failure(500, ErrUpload)

Send(r, out, response) == [out EXCEPT ![r] = Append(@, response)]

\* The catch block, entered with the history h of request r: one guarded
\* deletion attempt when req.file is set, then the 500 response.
Catch(r, h, o) ==
  /\ IF IsSome(reqFile[r])
     THEN /\ o \in UnlinkOutcomes(files, FilePath(r))
          /\ files' = IF o = "ok" THEN unlinkSync(files, FilePath(r)) ELSE files
          /\ hist' = [hist EXCEPT ![r] = [h EXCEPT !.unlinks = @ + 1,
                                                   !.unlinkFailed = @ \/ o # "ok"]]
     ELSE /\ o = "ok"
          /\ files' = files
          /\ hist' = [hist EXCEPT ![r] = h]
  /\ sent' = Send(r, sent, Failure(500, ErrInternal))
  /\ pc' = [pc EXCEPT ![r] = "done"]

\* A duplicate was found by the look-up `which`: fs.unlinkSync outside any
\* try, then the 400 response; when unlinkSync throws, control passes to the
\* catch block.
RejectDuplicate(r, which, msg, o1, o2) ==
  /\ o1 \in UnlinkOutcomes(files, FilePath(r))
  /\ IF o1 = "ok"
     THEN /\ o2 = "ok"
          /\ files' = unlinkSync(files, FilePath(r))
          /\ hist' = [hist EXCEPT ![r].unlinks = @ + 1, ![r].found = which]
          /\ sent' = Send(r, sent, Failure(400, msg))
          /\ pc' = [pc EXCEPT ![r] = "done"]
     ELSE Catch(r, [hist[r] EXCEPT !.unlinks = @ + 1, !.unlinkFailed = TRUE,
                                   !.found = which], o2)

\* multer finishes and calls back; on success the handler runs the field
\* checks and issues the e-mail look-up.  t is the value of Date.now() in
\* the filename callback: the clock never runs backwards, and since file
\* names are only compared for equality, a later millisecond is numbered
\* now + 1.
Upload(r, body, t) ==
  LET parts == body.parts
      err == UploadError(parts)
      stores == Len(parts) > 0 /\ fileFilter(parts[1])
      fn == filename(t, parts[1])
  IN  /\ t \in {now, now + 1} \cap (1..MaxNow)
      /\ stores \/ t = SetMin({now, now + 1} \cap (1..MaxNow))
      /\ now' = IF stores THEN t ELSE now
      /\ IF err # ""
         THEN \* multer removes what it wrote, the callback answers and
              \* rejects, the catch block answers again
              /\ files' = IF stores THEN unlinkSync(files, fn) ELSE files
              /\ reqFile' = reqFile
              /\ sent' = Send(r, Send(r, sent, UploadFailure(err)),
                              Failure(500, ErrInternal))
              /\ hist' = [hist EXCEPT
                   ![r] = [Arrived(@) EXCEPT !.writes = IF stores THEN @ + 1 ELSE @]]
              /\ pc' = [pc EXCEPT ![r] = "done"]
         ELSE LET uploadedFile == IF stores THEN Some([filename |-> fn]) ELSE None
                  verr == FieldError(body, uploadedFile)
              IN  /\ files' = IF stores THEN writeFile(files, fn, r) ELSE files
                  /\ reqFile' = [reqFile EXCEPT ![r] = uploadedFile]
                  /\ hist' = [hist EXCEPT
                       ![r] = [Arrived(@) EXCEPT !.stored = IF stores THEN 1 ELSE 0,
                                                 !.writes = IF stores THEN @ + 1 ELSE @]]
                  /\ IF verr # ""
                     THEN /\ sent' = Send(r, sent, Failure(400, verr))
                          /\ pc' = [pc EXCEPT ![r] = "done"]
                     ELSE /\ sent' = sent
                          /\ pc' = [pc EXCEPT ![r] = "findEmail"]

\* A request is handled up to its first datastore call: the method check, the
\* upload and the field checks (nothing shared is read before the upload, so
\* arrival and upload are one step).  Requests are numbered in the order in
\* which their uploads finish.
Receive(r, s, t) ==
  /\ pc[r] = "idle"
  /\ \A q \in ReqIds : q < r => pc[q] # "idle"
  /\ req' = [req EXCEPT ![r] = s]
  /\ IF s.method # "POST"
     THEN /\ t = 1
          /\ sent' = Send(r, sent, Failure(405, ErrMethod))
          /\ pc' = [pc EXCEPT ![r] = "done"]
          /\ hist' = [hist EXCEPT ![r] = Arrived(@)]
          /\ UNCHANGED <<files, now, reqFile>>
     ELSE Upload(r, s, t)
  /\ UNCHANGED <<applicants, faults>>

\* The e-mail look-up returns (or the datastore faults).
FindEmail(r, dbOk, o1, o2) ==
  /\ pc[r] = "findEmail"
  /\ Inject(dbOk, o1, o2)
  /\ IF ~dbOk
     THEN /\ o1 = "ok"
          /\ Catch(r, [hist[r] EXCEPT !.dbFault = TRUE], o2)
     ELSE IF existingApplicantByEmail(applicants, Val(req[r].email)) # {}
     THEN RejectDuplicate(r, "email", ErrDupEmail, o1, o2)
     ELSE /\ o1 = "ok" /\ o2 = "ok"
          /\ pc' = [pc EXCEPT ![r] = "findPhone"]
          /\ UNCHANGED <<files, sent, hist>>
  /\ UNCHANGED <<applicants, now, req, reqFile>>

\* The phone look-up returns (or the datastore faults).
FindPhone(r, dbOk, o1, o2) ==
  /\ pc[r] = "findPhone"
  /\ Inject(dbOk, o1, o2)
  /\ IF ~dbOk
     THEN /\ o1 = "ok"
          /\ Catch(r, [hist[r] EXCEPT !.dbFault = TRUE], o2)
     ELSE IF existingApplicantByPhone(applicants, Val(req[r].phone)) # {}
     THEN RejectDuplicate(r, "phone", ErrDupPhone, o1, o2)
     ELSE /\ o1 = "ok" /\ o2 = "ok"
          /\ pc' = [pc EXCEPT ![r] = "create"]
          /\ UNCHANGED <<files, sent, hist>>
  /\ UNCHANGED <<applicants, now, req, reqFile>>

\* The insert returns (or the datastore faults).
Create(r, dbOk, o) ==
  /\ pc[r] = "create"
  /\ Inject(dbOk, o, "ok")
  /\ IF dbOk
     THEN LET row == newApplicant(applicants, req[r], FilePath(r))
          IN  /\ o = "ok"
              /\ applicants' = Append(applicants, row)
              /\ sent' = Send(r, sent, Success(row.id))
              /\ hist' = [hist EXCEPT ![r].created = row.id,
                                       ![r].creates = @ + 1]
              /\ pc' = [pc EXCEPT ![r] = "done"]
              /\ files' = files
     ELSE /\ applicants' = applicants
          /\ Catch(r, [hist[r] EXCEPT !.dbFault = TRUE], o)
  /\ UNCHANGED <<now, req, reqFile>>

Next ==
  \/ \E r \in ReqIds, s \in Submissions, t \in 1..MaxNow : Receive(r, s, t)
  \/ \E r \in ReqIds, dbOk \in BOOLEAN, o1, o2 \in UnlinkResults : FindEmail(r, dbOk, o1, o2)
  \/ \E r \in ReqIds, dbOk \in BOOLEAN, o1, o2 \in UnlinkResults : FindPhone(r, dbOk, o1, o2)
  \/ \E r \in ReqIds, dbOk \in BOOLEAN, o \in UnlinkResults : Create(r, dbOk, o)

Spec == Init /\ [][Next]_vars

\* ================================================================ claims
Done(r) == pc[r] = "done"
\* the response the client receives: the first one sent
Response(r) == sent[r][1]
\* the upload step succeeded
Uploaded(r) == req[r].method = "POST" /\ UploadError(req[r].parts) = ""
\* the submission passes field validation and has a stored file
ValidSubmission(r) ==
  /\ Uploaded(r)
  /\ Len(req[r].parts) = 1
  /\ ~Blank(req[r].fullName)
  /\ IsSome(req[r].email) /\ validateEmail(Val(req[r].email))
  /\ IsSome(req[r].phone) /\ validatePhone(Val(req[r].phone))
  /\ (IsSome(req[r].linkedin) => validateLinkedIn(Val(req[r].linkedin)))
SameIgnoringCase(a, b) == ToLowerCase(a) = ToLowerCase(b)
Faulted(r) == hist[r].dbFault \/ hist[r].unlinkFailed
Rows == 1..Len(applicants)

\* C1: any two distinct applicant rows differ in e-mail, compared without
\* regard to letter case, and in phone.
C1_UniqueEmailAndPhone ==
  \A i, j \in Rows :
     i # j => /\ ~SameIgnoringCase(applicants[i].email, applicants[j].email)
              /\ applicants[i].phone # applicants[j].phone

\* C2: two valid submissions with the identical e-mail that are in flight
\* together end with exactly one row created and the other answered with the
\* duplicate-email rejection.  Stated for e-mails that are already trimmed
\* and lower-case and for requests that met no fault, so that only the
\* interleaving of look-ups and inserts decides it.
C2_ConcurrentSameEmailOneAccepted ==
  \A r1, r2 \in ReqIds :
     ( /\ r1 # r2 /\ Done(r1) /\ Done(r2)
       /\ r1 \in hist[r2].inFlight
       /\ ValidSubmission(r1) /\ ValidSubmission(r2)
       /\ req[r1].email = req[r2].email
       /\ ToLowerCase(Trim(Val(req[r1].email))) = Val(req[r1].email)
       /\ ~Faulted(r1) /\ ~Faulted(r2) )
     => \E a, b \in {r1, r2} :
           /\ a # b
           /\ hist[a].created # 0
           /\ hist[b].created = 0
           /\ Response(b) = Failure(400, ErrDupEmail)

\* C3: a valid submission received when a row already holds its e-mail in
\* some letter casing is answered with the duplicate-email error and creates
\* no row.  Stated for requests that met no fault and whose phone no row
\* holds, so that only the e-mail look-up can reject them.
C3_LaterSameEmailRejected ==
  \A r \in ReqIds :
     ( /\ Done(r) /\ ValidSubmission(r) /\ ~Faulted(r)
       /\ \E i \in 1..hist[r].startLen :
             SameIgnoringCase(applicants[i].email, Val(req[r].email))
       /\ \A i \in 1..hist[r].startLen : applicants[i].phone # Val(req[r].phone) )
     => /\ Response(r) = Failure(400, ErrDupEmail)
        /\ hist[r].created = 0

\* C4: a valid submission received when a row already holds its phone, and
\* whose e-mail matches no row, is answered with the duplicate-phone error
\* and creates no row (requests whose datastore call threw aside).
C4_LaterSamePhoneRejected ==
  \A r \in ReqIds :
     ( /\ Done(r) /\ ValidSubmission(r) /\ ~hist[r].dbFault
       /\ \E i \in 1..hist[r].startLen : applicants[i].phone = Val(req[r].phone)
       /\ \A i \in Rows : ~SameIgnoringCase(applicants[i].email, Val(req[r].email)) )
     => /\ Response(r) = Failure(400, ErrDupPhone)
        /\ hist[r].created = 0

\* C5: a request that stored its upload and was answered with a failure has
\* left no file of its own in the resume directory (requests whose deletion
\* attempt failed aside).
C5_FailureRemovesStoredFile ==
  \A r \in ReqIds :
     (Done(r) /\ hist[r].stored = 1 /\ Response(r).kind = "error"
      /\ ~hist[r].unlinkFailed)
     => files[FilePath(r)] # r

FirstFailingField(body, uploadedFile) ==
  LET checks ==
        << <<Blank(body.fullName), ErrFullName>>,
           <<Blank(body.email), ErrEmailRequired>>,
           <<IsSome(body.email) /\ ~validateEmail(Val(body.email)), ErrEmailFormat>>,
           <<Blank(body.phone), ErrPhoneRequired>>,
           <<IsSome(body.phone) /\ ~validatePhone(Val(body.phone)), ErrPhoneFormat>>,
           <<IsSome(body.linkedin) /\ ~validateLinkedIn(Val(body.linkedin)), ErrLinkedIn>>,
           <<~IsSome(uploadedFile), ErrResume>> >>
      failing == {i \in 1..Len(checks) : checks[i][1]}
  IN  IF failing = {} THEN "" ELSE checks[SetMin(failing)][2]

\* the error of the first failing check of request r, the duplicate look-ups
\* coming after the field checks, e-mail before phone
FirstFailingCheck(r) ==
  IF FirstFailingField(req[r], reqFile[r]) # "" THEN FirstFailingField(req[r], reqFile[r])
  ELSE IF hist[r].found = "email" THEN ErrDupEmail
  ELSE IF hist[r].found = "phone" THEN ErrDupPhone
  ELSE ""

\* C7: a request whose upload succeeded and one of whose checks failed is
\* answered once, with the error of its first failing check (requests whose
\* datastore call threw aside).
C7_FirstFailingCheckReported ==
  \A r \in ReqIds :
     (Done(r) /\ Uploaded(r) /\ ~hist[r].dbFault /\ FirstFailingCheck(r) # "")
     => sent[r] = <<Failure(400, FirstFailingCheck(r))>>

\* C8: a finished request has sent exactly one response.
C8_ExactlyOneResponse ==
  \A r \in ReqIds : Done(r) => Len(sent[r]) = 1

C10_DeleteFailureKeepsDuplicateError ==
  \A r \in ReqIds :
     (Done(r) /\ hist[r].found # "" /\ hist[r].unlinkFailed)
     => Response(r) = Failure(400, IF hist[r].found = "email" THEN ErrDupEmail
                                   ELSE ErrDupPhone)

\* C11: the status of the response a finished request received follows the
\* kind of its outcome: 405 for a method other than POST; 400 for a file-type
\* or file-size rejection, a failed field check or a duplicate found by a
\* look-up; 500 only for another upload error or a datastore call that threw;
\* 200 carrying the id of the row the request created otherwise.
C11_StatusFollowsFailureKind ==
  \A r \in ReqIds :
     Done(r) =>
       LET status == Response(r).status
           err == UploadError(req[r].parts)
       IN  IF req[r].method # "POST" THEN status = 405
           ELSE IF err \in {"FILE_TYPE", "LIMIT_FILE_SIZE"} THEN status = 400
           ELSE IF err # "" THEN status = 500
           ELSE IF FirstFailingField(req[r], reqFile[r]) # "" THEN status = 400
           ELSE IF hist[r].found # "" THEN status = 400
           ELSE IF hist[r].dbFault THEN status = 500
           ELSE /\ status = 200
                /\ Response(r).kind = "message"
                /\ hist[r].created \in Rows
                /\ Response(r).id = applicants[hist[r].created].id

\* C12: a finished request has had at most one file written for it, has
\* attempted at most one deletion of its stored file, and has inserted at
\* most one row.
C12_EachSideEffectAtMostOnce ==
  \A r \in ReqIds :
     Done(r) => /\ hist[r].writes <= 1
                /\ hist[r].unlinks <= 1
                /\ hist[r].creates <= 1

\* the row of request r is the one the claim describes: full name trimmed,
\* e-mail trimmed and lower-cased, phone trimmed, linkedin trimmed or absent,
\* resume path of the file stored for r
IsRecordOf(row, r) ==
  /\ row.full_name = Trim(Val(req[r].fullName))
  /\ row.email = ToLowerCase(Trim(Val(req[r].email)))
  /\ row.phone = Trim(Val(req[r].phone))
  /\ row.linkedin = IF IsSome(req[r].linkedin) /\ Trim(Val(req[r].linkedin)) # <<>>
                     THEN Some(Trim(Val(req[r].linkedin)))
                     ELSE None
  /\ hist[r].stored = 1
  /\ row.resume_path = [dir |-> "resumes", filename |-> FilePath(r)]

\* the rows are exactly those the requests created, one each
RowsAreCreations ==
  /\ \A i \in Rows : \E r \in ReqIds : hist[r].created = i
  /\ \A r1, r2 \in ReqIds :
        (r1 # r2 /\ hist[r1].created # 0) => hist[r1].created # hist[r2].created

\* the outcome of a finished request in the table
OutcomeInTable(r) ==
  IF Response(r).kind = "message"
  THEN /\ hist[r].creates = 1
       /\ hist[r].created \in Rows
       /\ hist[r].created > hist[r].startLen
       /\ IsRecordOf(applicants[hist[r].created], r)
  ELSE /\ hist[r].creates = 0
       /\ hist[r].created = 0

\* a step leaves every existing row as it was and adds at most one
TableOnlyGrows ==
  /\ Len(applicants') \in {Len(applicants), Len(applicants) + 1}
  /\ \A i \in Rows : applicants'[i] = applicants[i]

\* C13: the applicant table only grows, by the rows the requests created: a
\* request answered with success added exactly one row, holding the full
\* name trimmed, the e-mail trimmed and lower-cased, the phone trimmed, the
\* linkedin trimmed or absent and the path of its stored file; a request
\* answered with a failure added none; no step changes or removes a row.
C13_TableGrowsByOneRowPerSuccess ==
  /\ [](RowsAreCreations /\ \A r \in ReqIds : Done(r) => OutcomeInTable(r))
  /\ [][TableOnlyGrows]_vars

\* C13 witness: a submission with upper-case e-mail letters and a padded
\* linkedin was answered with success, and another request with a failure.
C13_Witness ==
  \E r1, r2 \in ReqIds :
     /\ Done(r1) /\ Done(r2)
     /\ req[r1] = Valid(EmailAUpper, Phone2, Some(LinkedInOk), ResumePdf)
     /\ Response(r1).kind = "message"
     /\ applicants[hist[r1].created].email # Val(req[r1].email)
     /\ applicants[hist[r1].created].linkedin # req[r1].linkedin
     /\ Response(r2).kind = "error"
     /\ Len(applicants) = 1

\* the rows whose resume path names the file f
Referencing(f) == {i \in Rows : applicants[i].resume_path.filename = f}

\* C14: every row's resume path names a file present in the resume
\* directory, distinct rows have distinct resume paths, and no step removes
\* a file that a row references.
C14_ResumePathsNamePresentDistinctFiles ==
  /\ [](/\ \A i \in Rows : files[applicants[i].resume_path.filename] # 0
        /\ \A i, j \in Rows :
              i # j => applicants[i].resume_path # applicants[j].resume_path)
  /\ [][\A f \in FileNames :
          (files[f] # 0 /\ files'[f] = 0) => Referencing(f) = {}]_vars

====
